---- MODULE Spec2Model ----
(***************************************************************************)
(* Model of src/main.py of Participating_Tenderers_Scraper: the document   *)
(* text resolver (extract_text_from_pdf), the candidate resolver           *)
(* (search_for_project / verify_project_date), the ranking table parser    *)
(* (extract_tenderers_from_pdf_text), the date normaliser                  *)
(* (format_date_for_search), the date extractor (extract_date_from_text)   *)
(* and the batch and merge loops of main.                                  *)
(* Each function has its own specification over the shared variables; the  *)
(* variables a specification does not use stay at their idle values.       *)
(***************************************************************************)
EXTENDS Integers, Sequences, FiniteSets, TLC

VARIABLES
    \* ---- browser session and extract_text_from_pdf (lines 292-354)
    windows,          \* driver.window_handles: the open browsing contexts
    active,           \* the context the session is switched to (may be closed)
    nextHandle,       \* the handle the next window.open creates
    pc,               \* position inside extract_text_from_pdf
    original_window,  \* the local of line 296; 0 while still unbound
    text,             \* the local of line 309
    result,           \* the value returned by the call
    calls,            \* calls completed so far
    startActive,      \* history: the active context when the call started
    startWindows,     \* history: the open contexts when the call started
    structured,       \* history: what Method 1 yielded, "none" before it ran
    engine,           \* history: outcome of get_tesseract_version in this call
    captures,         \* history: screenshots requested in this call
    recognitions,     \* history: image_to_string invocations in this call
    releaseRaised,    \* history: line 342 or 343 raised in this call
    \* ---- search_for_project and verify_project_date (lines 187-289)
    candidates,       \* the surface: detail date of each search result, in order
    expected_date,    \* the parameter of search_for_project
    spc,              \* position inside search_for_project
    result_items,     \* the local of line 236
    idx,              \* the loop index of line 244, counted from 1
    activeView,       \* the candidate whose detail view is showing, 0 for none
    found,            \* the value search_for_project returns
    attempts,         \* history: candidates whose activation was requested
    verified,         \* history: <<candidate, extracted date>> of each verification
    raisedAt,         \* history: candidates during whose processing something raised
    dismissals,       \* history: <<candidate, close button found, means>> of each dismissal step (FALSE when it raised)
    \* ---- process_project and main (lines 429-520)
    df,                   \* the DataFrame of line 478: a sequence of rows
    df0,                  \* history: the DataFrame as loaded, before the batch
    projects_to_process,  \* the list of line 481
    updated_projects,     \* the list of line 493
    mpc,                  \* position inside main
    origin,               \* history: the row each selected project was read from
    outcomes,             \* history: how the resolution of each project ended
    \* ---- extract_tenderers_from_pdf_text (lines 357-392)
    pdf_text,             \* the parameter: a sequence of characters
    lines,                \* the local of line 362
    line_no,              \* the loop index of line 365, counted from 1
    successful_tenderer,  \* the local of line 359
    other_tenderers,      \* the local of line 360
    found_table,          \* the local of line 363
    ppc,                  \* position inside the function
    winner_from,          \* history: the line the winner was taken from, 0 for none
    winner_via,           \* history: "label" (line 370), "table" (line 385) or "none"
    others_from,          \* history: the line each runner-up was taken from
    \* ---- format_date_for_search (lines 99-120)
    date_input,           \* the parameter
    once,                 \* format_date_for_search(date_input)
    twice,                \* format_date_for_search(once)
    dpc,                  \* how many times the function was applied
    \* ---- extract_date_from_text (lines 155-184)
    details_text,         \* the parameter text: a sequence of characters
    pattern_no,           \* the loop index of line 163, counted from 1
    extracted_date,       \* the value returned, None while there is none
    xpc,                  \* position inside the function
    tried                 \* history: how each pattern tried so far ended

pdfVars == <<windows, active, nextHandle, pc, original_window, text, result,
             calls, startActive, startWindows, structured, engine, captures,
             recognitions, releaseRaised>>

searchVars == <<candidates, expected_date, spc, result_items, idx, activeView,
                found, attempts, verified, raisedAt, dismissals>>

mainVars == <<df, df0, projects_to_process, updated_projects, mpc, origin,
              outcomes>>

parseVars == <<pdf_text, lines, line_no, successful_tenderer, other_tenderers,
               found_table, ppc, winner_from, winner_via, others_from>>

dateVars == <<date_input, once, twice, dpc>>

extractVars == <<details_text, pattern_no, extracted_date, xpc, tried>>

vars == <<pdfVars, searchVars, mainVars, parseVars, dateVars, extractVars>>

\* What each specification leaves alone.
nonPdfVars == <<searchVars, mainVars, parseVars, dateVars, extractVars>>
nonSearchVars == <<pdfVars, mainVars, parseVars, dateVars, extractVars>>
nonMainVars == <<pdfVars, searchVars, parseVars, dateVars, extractVars>>
nonParseVars == <<pdfVars, searchVars, mainVars, dateVars, extractVars>>
nonDateVars == <<pdfVars, searchVars, mainVars, parseVars, extractVars>>
nonExtractVars == <<pdfVars, searchVars, mainVars, parseVars, dateVars>>

(***************************************************************************)
(* Bounds                                                                  *)
(***************************************************************************)
MaxCalls == 3
MaxCandidates == 3
MaxRows == 2
MaxLines == 4

(***************************************************************************)
(* extract_text_from_pdf                                                   *)
(***************************************************************************)
\* What the viewer frame can yield (line 316) and what OCR can read (line 337).
StructuredTexts == {"", "viewer text"}
OcrTexts == {"", "ocr text"}

\* Where an exception raised at a step of extract_text_from_pdf lands:
\* the bare "except: pass" of line 318 for Method 1, the "except Exception"
\* of line 338 for the OCR steps, the bare except of line 352 inside the
\* handler, and the outer "except Exception" of line 347 for everything else.
ExceptTargetUnguardedHandler(at) ==
    CASE at = "method1" -> "if_not_text"
      [] at \in {"tesseract_version", "screenshot", "image_to_string"} -> "close"
      [] at = "handler" -> "escaped"
      [] OTHER -> "handler"

ExceptTarget(at) ==
    CASE at = "method1" -> "if_not_text"
      [] at \in {"tesseract_version", "screenshot", "image_to_string"} -> "close"
      [] at = "handler" -> "return_empty"
      [] OTHER -> "handler"

\* Line 322: "if not text".
NeedsOcrAlways(t) == TRUE

NeedsOcr(t) == t = ""

\* Lines 301-304: the first handle, in creation order, that is not the original.
FirstOther(ws, orig) ==
    CHOOSE h \in ws \ {orig} : \A g \in ws \ {orig} : h <= g

\* The session before any document was opened: one context, switched to.
PdfIdle ==
    /\ windows = {1}
    /\ active = 1
    /\ nextHandle = 2
    /\ pc = "idle"
    /\ original_window = 0
    /\ text = ""
    /\ result = ""
    /\ calls = 0
    /\ startActive = 1
    /\ startWindows = {1}
    /\ structured = "none"
    /\ engine = "unchecked"
    /\ captures = 0
    /\ recognitions = 0
    /\ releaseRaised = FALSE

\* search_for_project not called.
SearchIdle ==
    /\ candidates = <<>>
    /\ expected_date = ""
    /\ spc = "idle"
    /\ result_items = <<>>
    /\ idx = 0
    /\ activeView = 0
    /\ found = "pending"
    /\ attempts = <<>>
    /\ verified = <<>>
    /\ raisedAt = {}
    /\ dismissals = <<>>

\* main not started.
MainIdle ==
    /\ df = <<>>
    /\ df0 = <<>>
    /\ projects_to_process = <<>>
    /\ updated_projects = <<>>
    /\ mpc = "idle"
    /\ origin = <<>>
    /\ outcomes = <<>>

\* extract_tenderers_from_pdf_text not called.
ParseIdle ==
    /\ pdf_text = <<>>
    /\ lines = <<>>
    /\ line_no = 0
    /\ successful_tenderer = <<>>
    /\ other_tenderers = <<>>
    /\ found_table = FALSE
    /\ ppc = "idle"
    /\ winner_from = 0
    /\ winner_via = "none"
    /\ others_from = <<>>

\* format_date_for_search not called.
DateIdle ==
    /\ date_input = <<>>
    /\ once = <<>>
    /\ twice = <<>>
    /\ dpc = "idle"

\* Python's None where a str is expected: a sequence that is no str.
None == <<"None">>

ExtractIdle ==
    /\ details_text = <<>>
    /\ pattern_no = 0
    /\ extracted_date = None
    /\ xpc = "idle"
    /\ tried = <<>>

PdfInit ==
    /\ PdfIdle
    /\ SearchIdle
    /\ MainIdle
    /\ ParseIdle
    /\ DateIdle
    /\ ExtractIdle

\* The caller (extract_tenderers, line 406) enters the function.
Call ==
    /\ pc = "idle"
    /\ calls < MaxCalls
    /\ pc' = "current_window_handle"
    /\ original_window' = 0
    /\ text' = ""
    /\ result' = ""
    /\ startActive' = active
    /\ startWindows' = windows
    /\ structured' = "none"
    /\ engine' = "unchecked"
    /\ captures' = 0
    /\ recognitions' = 0
    /\ releaseRaised' = FALSE
    /\ UNCHANGED <<windows, active, nextHandle, calls>>
    /\ UNCHANGED nonPdfVars

\* Line 296: read the current handle; raises when the active context is gone.
CurrentWindowHandle ==
    /\ pc = "current_window_handle"
    /\ \E ok \in BOOLEAN :
         IF ok /\ active \in windows
         THEN /\ original_window' = active
              /\ pc' = "window_open"
         ELSE /\ original_window' = original_window
              /\ pc' = ExceptTarget("current_window_handle")
    /\ UNCHANGED <<windows, active, nextHandle, text, result, calls, startActive,
                   startWindows, structured, engine, captures, recognitions, releaseRaised>>
    /\ UNCHANGED nonPdfVars

\* Line 297: window.open(pdf_url, '_blank').
WindowOpen ==
    /\ pc = "window_open"
    /\ \E ok \in BOOLEAN :
         IF ok
         THEN /\ windows' = windows \cup {nextHandle}
              /\ nextHandle' = nextHandle + 1
              /\ pc' = "wait_windows"
         ELSE /\ UNCHANGED <<windows, nextHandle>>
              /\ pc' = ExceptTarget("window_open")
    /\ UNCHANGED <<active, original_window, text, result, calls, startActive,
                   startWindows, structured, engine, captures, recognitions, releaseRaised>>
    /\ UNCHANGED nonPdfVars

\* Line 300: WebDriverWait(...).until(number_of_windows_to_be(2)).
WaitWindows ==
    /\ pc = "wait_windows"
    /\ pc' = IF Cardinality(windows) = 2 THEN "switch_new"
             ELSE ExceptTarget("wait_windows")
    /\ UNCHANGED <<windows, active, nextHandle, original_window, text, result,
                   calls, startActive, startWindows, structured, engine,
                   captures, recognitions, releaseRaised>>
    /\ UNCHANGED nonPdfVars

\* Lines 301-304: switch to the first handle that is not the original.
SwitchNew ==
    /\ pc = "switch_new"
    /\ \E ok \in BOOLEAN :
         IF ok
         THEN /\ active' = FirstOther(windows, original_window)
              /\ pc' = "method1"
         ELSE /\ active' = active
              /\ pc' = ExceptTarget("switch_new")
    /\ UNCHANGED <<windows, nextHandle, original_window, text, result, calls,
                   startActive, startWindows, structured, engine, captures,
                   recognitions, releaseRaised>>
    /\ UNCHANGED nonPdfVars

\* Lines 312-319: structured extraction from the viewer frame.  A failure
\* before line 316 leaves text empty; one after it (line 317) keeps the text.
Method1 ==
    /\ pc = "method1"
    /\ \E t \in StructuredTexts, raised \in BOOLEAN :
         /\ text' = t
         /\ structured' = t
         /\ pc' = IF raised THEN ExceptTarget("method1") ELSE "if_not_text"
    /\ UNCHANGED <<windows, active, nextHandle, original_window, result, calls,
                   startActive, startWindows, engine, captures, recognitions, releaseRaised>>
    /\ UNCHANGED nonPdfVars

\* Line 322.
IfNotText ==
    /\ pc = "if_not_text"
    /\ pc' = IF NeedsOcr(text) THEN "tesseract_version" ELSE "close"
    /\ UNCHANGED <<windows, active, nextHandle, original_window, text, result,
                   calls, startActive, startWindows, structured, engine,
                   captures, recognitions, releaseRaised>>
    /\ UNCHANGED nonPdfVars

\* Lines 325-330: the engine check.  TesseractNotFoundError returns "" at
\* line 330; any other exception is caught at line 338.
TesseractVersion ==
    /\ pc = "tesseract_version"
    /\ \E outcome \in {"available", "not_found", "error"} :
         /\ engine' = outcome
         /\ pc' = CASE outcome = "available" -> "screenshot"
                    [] outcome = "not_found" -> "return_330"
                    [] OTHER -> ExceptTarget("tesseract_version")
    /\ UNCHANGED <<windows, active, nextHandle, original_window, text, result,
                   calls, startActive, startWindows, structured, captures,
                   recognitions, releaseRaised>>
    /\ UNCHANGED nonPdfVars

\* Line 330: return "" straight from the engine check.
Return330 ==
    /\ pc = "return_330"
    /\ result' = ""
    /\ pc' = "returned"
    /\ UNCHANGED <<windows, active, nextHandle, original_window, text, calls,
                   startActive, startWindows, structured, engine, captures,
                   recognitions, releaseRaised>>
    /\ UNCHANGED nonPdfVars

\* Lines 333-334: capture the raster image of the current view.
Screenshot ==
    /\ pc = "screenshot"
    /\ captures' = captures + 1
    /\ \E ok \in BOOLEAN :
         pc' = IF ok THEN "image_to_string" ELSE ExceptTarget("screenshot")
    /\ UNCHANGED <<windows, active, nextHandle, original_window, text, result,
                   calls, startActive, startWindows, structured, engine,
                   recognitions, releaseRaised>>
    /\ UNCHANGED nonPdfVars

\* Line 337: text = pytesseract.image_to_string(image).
ImageToString ==
    /\ pc = "image_to_string"
    /\ recognitions' = recognitions + 1
    /\ \/ \E t \in OcrTexts : text' = t /\ pc' = "close"
       \/ text' = text /\ pc' = ExceptTarget("image_to_string")
    /\ UNCHANGED <<windows, active, nextHandle, original_window, result, calls,
                   startActive, startWindows, structured, engine, captures, releaseRaised>>
    /\ UNCHANGED nonPdfVars

\* Line 342: driver.close() closes the context the session is switched to.
Close ==
    /\ pc = "close"
    /\ \E ok \in BOOLEAN :
         IF ok
         THEN /\ windows' = windows \ {active}
              /\ releaseRaised' = releaseRaised
              /\ pc' = "switch_back"
         ELSE /\ windows' = windows
              /\ releaseRaised' = TRUE
              /\ pc' = ExceptTarget("close")
    /\ UNCHANGED <<active, nextHandle, original_window, text, result, calls,
                   startActive, startWindows, structured, engine, captures,
                   recognitions>>
    /\ UNCHANGED nonPdfVars

\* Lines 343-345: switch back and return the text.
SwitchBack ==
    /\ pc = "switch_back"
    /\ \E ok \in BOOLEAN :
         IF ok /\ original_window \in windows
         THEN /\ active' = original_window
              /\ result' = text
              /\ releaseRaised' = releaseRaised
              /\ pc' = "returned"
         ELSE /\ UNCHANGED <<active, result>>
              /\ releaseRaised' = TRUE
              /\ pc' = ExceptTarget("switch_back")
    /\ UNCHANGED <<windows, nextHandle, original_window, text, calls,
                   startActive, startWindows, structured, engine, captures,
                   recognitions>>
    /\ UNCHANGED nonPdfVars

\* Lines 347-353: the outer handler tries to switch back; with original_window
\* still unbound the switch raises NameError, which line 352 swallows too.
Handler ==
    /\ pc = "handler"
    /\ \E ok \in BOOLEAN :
         IF ok /\ original_window \in windows
         THEN /\ active' = original_window
              /\ pc' = "return_empty"
         ELSE /\ active' = active
              /\ pc' = ExceptTarget("handler")
    /\ UNCHANGED <<windows, nextHandle, original_window, text, result, calls,
                   startActive, startWindows, structured, engine, captures,
                   recognitions, releaseRaised>>
    /\ UNCHANGED nonPdfVars

\* Line 354.
ReturnEmpty ==
    /\ pc = "return_empty"
    /\ result' = ""
    /\ pc' = "returned"
    /\ UNCHANGED <<windows, active, nextHandle, original_window, text, calls,
                   startActive, startWindows, structured, engine, captures,
                   recognitions, releaseRaised>>
    /\ UNCHANGED nonPdfVars

\* The caller takes the result; a later Record may call again.
Resume ==
    /\ pc = "returned"
    /\ pc' = "idle"
    /\ calls' = calls + 1
    /\ UNCHANGED <<windows, active, nextHandle, original_window, text, result,
                   startActive, startWindows, structured, engine, captures,
                   recognitions, releaseRaised>>
    /\ UNCHANGED nonPdfVars

PdfNext ==
    \/ Call
    \/ CurrentWindowHandle
    \/ WindowOpen
    \/ WaitWindows
    \/ SwitchNew
    \/ Method1
    \/ IfNotText
    \/ TesseractVersion
    \/ Return330
    \/ Screenshot
    \/ ImageToString
    \/ Close
    \/ SwitchBack
    \/ Handler
    \/ ReturnEmpty
    \/ Resume

SpecPdf == PdfInit /\ [][PdfNext]_vars

(***************************************************************************)
(* Properties of extract_text_from_pdf                                     *)
(***************************************************************************)
ExtractedTexts == StructuredTexts \cup OcrTexts

\* C1: on every return path of extract_text_from_pdf the session's active
\* context at the moment of return is the context that was active when the
\* call started.
C1_OriginalContextRestored ==
    pc = "returned" => active = startActive

\* C6 as stated: non-empty structured text means the OCR path is never
\* invoked and that text is returned; empty structured text with the engine
\* available means the capture-then-recognize path is invoked exactly once.
C6_PathSelection ==
    pc = "returned" =>
        /\ structured \notin {"none", ""} =>
               /\ captures = 0
               /\ recognitions = 0
               /\ result = structured
        /\ (structured = "" /\ engine = "available") =>
               /\ captures = 1
               /\ recognitions <= 1

\* C6 amended: as C6, except that the non-empty structured text is returned
\* only when closing the isolated context (line 342) and switching back
\* (line 343) do not raise; when either raises the call returns "".
C6_PathSelectionUnlessReleaseRaises ==
    pc = "returned" =>
        /\ structured \notin {"none", ""} =>
               /\ captures = 0
               /\ recognitions = 0
               /\ engine = "unchecked"
               /\ result = IF releaseRaised THEN "" ELSE structured
        /\ (structured = "" /\ engine = "available") =>
               /\ captures = 1
               /\ recognitions <= 1

\* The OCR path ran once after an empty structured extraction and its text
\* came back.
C6_Witness ==
    /\ pc = "returned"
    /\ structured = ""
    /\ engine = "available"
    /\ captures = 1
    /\ recognitions = 1
    /\ result = "ocr text"

\* C7: extract_text_from_pdf never lets an exception escape; it returns a
\* string, and the empty string when the engine is unavailable or when
\* neither structured extraction nor recognition produced text.
C7_NoExceptionEscapes ==
    /\ pc # "escaped"
    /\ pc = "returned" =>
        /\ result \in ExtractedTexts
        /\ engine = "not_found" => result = ""
        /\ (structured \in {"none", ""} /\ recognitions = 0) => result = ""

\* A call that found the engine missing returned "" to its caller.
C7_Witness ==
    /\ pc = "returned"
    /\ engine = "not_found"
    /\ structured = ""
    /\ result = ""

\* C8: every isolated context a call opened is closed when the call returns
\* (as many open contexts after the call as before it), so each call starts
\* from a single open context.
C8_IsolatedContextsClosed ==
    /\ pc = "returned" => windows = startWindows
    /\ pc = "current_window_handle" => Cardinality(windows) = 1

(***************************************************************************)
(* search_for_project and verify_project_date                              *)
(***************************************************************************)
\* The date extract_date_from_text finds in a candidate's detail text
\* (line 199): a canonical date, or "none" when the text holds no date.
DetailDates == {"none", "7-Aug-24", "13-Mar-25"}
ExpectedDates == {"7-Aug-24", "13-Mar-25"}

\* Sequences over S of length at most n.
SeqUpTo(S, n) == UNION {[1..k -> S] : k \in 0..n}

\* Lines 201-209 of verify_project_date: a date was found and it equals the
\* expected one; no date found falls through to "return False".
VerifyResultLenient(found_date, expected) ==
    found_date = "none" \/ found_date = expected

VerifyResult(found_date, expected) ==
    found_date # "none" /\ found_date = expected

\* Lines 275-278: an exception inside the loop body is logged and the loop
\* continues with the next result.
CandidateErrorTargetAbort == "return_false"

CandidateErrorTarget == "continue"

SearchInit ==
    /\ PdfIdle
    /\ MainIdle
    /\ ParseIdle
    /\ DateIdle
    /\ ExtractIdle
    /\ candidates \in SeqUpTo(DetailDates, MaxCandidates)
    /\ expected_date \in ExpectedDates
    /\ spc = "navigate"
    /\ result_items = <<>>
    /\ idx = 0
    /\ activeView = 0
    /\ found = "pending"
    /\ attempts = <<>>
    /\ verified = <<>>
    /\ raisedAt = {}
    /\ dismissals = <<>>

\* Lines 216-226: load the page and submit the search term.  An exception
\* lands at line 287 and the function returns False.
Navigate ==
    /\ spc = "navigate"
    /\ \E ok \in BOOLEAN :
         IF ok
         THEN spc' = "wait_results" /\ found' = found
         ELSE spc' = "done" /\ found' = "not_found"
    /\ UNCHANGED <<candidates, expected_date, result_items, idx, activeView,
                   attempts, verified, raisedAt, dismissals>>
    /\ UNCHANGED nonSearchVars

\* Lines 231-241: wait for the results container, enumerate the results and
\* return False when there are none.  An exception lands at line 283.
FindResults ==
    /\ spc = "wait_results"
    /\ \E ok \in BOOLEAN :
         IF ok /\ Len(candidates) > 0
         THEN /\ result_items' = candidates
              /\ idx' = 1
              /\ spc' = "click"
              /\ found' = found
         ELSE /\ result_items' = IF ok THEN candidates ELSE result_items
              /\ idx' = idx
              /\ spc' = "done"
              /\ found' = "not_found"
    /\ UNCHANGED <<candidates, expected_date, activeView, attempts, verified,
                   raisedAt, dismissals>>
    /\ UNCHANGED nonSearchVars

AfterIterationRetry(i) ==
    IF i <= Len(result_items)
    THEN /\ idx' = i
         /\ spc' = "click"
         /\ found' = found
    ELSE /\ idx' = i
         /\ spc' = "done"
         /\ found' = "not_found"

\* Where the loop of line 244 goes after the body of iteration i ended
\* without a match: the next result, or lines 280-281 after the last one.
AfterIteration(i) ==
    IF i < Len(result_items)
    THEN /\ idx' = i + 1
         /\ spc' = "click"
         /\ found' = found
    ELSE /\ idx' = i
         /\ spc' = "done"
         /\ found' = "not_found"

\* An exception inside the body of iteration i.
AfterException(i) ==
    /\ raisedAt' = raisedAt \cup {i}
    /\ IF CandidateErrorTarget = "continue"
       THEN AfterIteration(i)
       ELSE /\ idx' = i
            /\ spc' = "done"
            /\ found' = "not_found"

\* Lines 246-250: activate result idx.
Click ==
    /\ spc = "click"
    /\ attempts' = Append(attempts, idx)
    /\ \E ok \in BOOLEAN :
         IF ok
         THEN /\ activeView' = idx
              /\ spc' = "verify"
              /\ UNCHANGED <<idx, found, raisedAt>>
         ELSE /\ activeView' = activeView
              /\ AfterException(idx)
    /\ UNCHANGED <<candidates, expected_date, result_items, verified,
                   dismissals>>
    /\ UNCHANGED nonSearchVars

\* Line 253 with verify_project_date (lines 187-209): wait for the detail
\* panel, read its text, extract the date and compare.  An exception inside
\* verify_project_date is caught at line 206 and gives False.
Verify ==
    /\ spc = "verify"
    /\ \E ok \in BOOLEAN :
         IF ok /\ activeView # 0
         THEN LET found_date == candidates[activeView] IN
              /\ verified' = Append(verified, <<activeView, found_date>>)
              /\ IF VerifyResult(found_date, expected_date)
                 THEN spc' = "done" /\ found' = "found"
                 ELSE spc' = "dismiss" /\ found' = found
              /\ raisedAt' = raisedAt
         ELSE /\ verified' = verified
              /\ raisedAt' = raisedAt \cup {idx}
              /\ spc' = "dismiss"
              /\ found' = found
    /\ UNCHANGED <<candidates, expected_date, result_items, idx, activeView,
                   attempts, dismissals>>
    /\ UNCHANGED nonSearchVars

\* Lines 262-267: the means of the dismissal.
DismissMeansEscapeOnly(close_buttons) == "escape"

DismissMeans(close_buttons) ==
    IF close_buttons THEN "close" ELSE "escape"

\* Lines 261-267: click the close button when one is found, else send
\* Escape.  An exception lands at line 268.
Dismiss ==
    /\ spc = "dismiss"
    /\ \E close_buttons \in BOOLEAN, ok \in BOOLEAN :
         IF ok
         THEN /\ activeView' = 0
              /\ dismissals' = Append(dismissals,
                     <<idx, close_buttons, DismissMeans(close_buttons)>>)
              /\ raisedAt' = raisedAt
              /\ AfterIteration(idx)
         ELSE /\ dismissals' = Append(dismissals, <<idx, FALSE, "raised">>)
              /\ activeView' = activeView
              /\ spc' = "history_back"
              /\ raisedAt' = raisedAt \cup {idx}
              /\ UNCHANGED <<idx, found>>
    /\ UNCHANGED <<candidates, expected_date, result_items, attempts, verified>>
    /\ UNCHANGED nonSearchVars

\* Lines 268-273: the dismissal raised; roll the navigation history back.
\* An exception here lands at line 275.
HistoryBack ==
    /\ spc = "history_back"
    /\ \E ok \in BOOLEAN :
         IF ok
         THEN /\ activeView' = 0
              /\ dismissals' = Append(dismissals, <<idx, FALSE, "back">>)
              /\ raisedAt' = raisedAt
              /\ AfterIteration(idx)
         ELSE /\ UNCHANGED <<activeView, dismissals>>
              /\ AfterException(idx)
    /\ UNCHANGED <<candidates, expected_date, result_items, attempts, verified>>
    /\ UNCHANGED nonSearchVars

SearchNext ==
    \/ Navigate
    \/ FindResults
    \/ Click
    \/ Verify
    \/ Dismiss
    \/ HistoryBack

SpecSearch == SearchInit /\ [][SearchNext]_vars

(***************************************************************************)
(* Properties of search_for_project                                        *)
(***************************************************************************)
Attempted(c) == \E a \in 1..Len(attempts) : attempts[a] = c
VerifiedAs(c, d) == \E v \in 1..Len(verified) : verified[v] = <<c, d>>
WasVerified(c) == \E v \in 1..Len(verified) : verified[v][1] = c

\* C2: search_for_project stops at the first candidate whose extracted
\* detail date equals expected_date and returns found with that candidate's
\* detail view left active: no later candidate is activated, no earlier one
\* is left active, and found is returned only on a verified equal date.
C2_FirstVerifiedMatchWins ==
    /\ \A v \in 1..Len(verified) :
           verified[v][2] = expected_date =>
               /\ v = Len(verified)
               /\ spc = "done"
               /\ found = "found"
    /\ found = "found" =>
           /\ spc = "done"
           /\ Len(verified) > 0
           /\ LET last == verified[Len(verified)] IN
              /\ last[2] = expected_date
              /\ candidates[last[1]] = expected_date
              /\ activeView = last[1]
              /\ \A a \in 1..Len(attempts) : attempts[a] <= last[1]
           /\ \A a, b \in 1..Len(attempts) : a < b => attempts[a] < attempts[b]

\* Of three candidates the second was verified equal and is left active; the
\* third, which carries the expected date too, was never activated.
C2_Witness ==
    /\ found = "found"
    /\ Len(candidates) = 3
    /\ activeView = 2
    /\ VerifiedAs(1, "none")
    /\ candidates[3] = expected_date
    /\ ~Attempted(3)

\* C3: an exception raised while candidate i is processed makes i a
\* non-match only: when i is not the last candidate, candidate i+1 is still
\* activated and verified (unless its own processing raises), and the search
\* ends with found or not-found, never with the exception.
C3_CandidateFailureIsolated ==
    /\ \A i \in raisedAt : ~VerifiedAs(i, expected_date)
    /\ spc = "done" =>
           /\ found \in {"found", "not_found"}
           /\ \A i \in raisedAt :
                  i < Len(result_items) =>
                      /\ Attempted(i + 1)
                      /\ WasVerified(i + 1) \/ (i + 1) \in raisedAt

\* Processing candidate 1 raised, and candidate 2 was still activated,
\* verified and returned as the match.
C3_Witness ==
    /\ spc = "done"
    /\ 1 \in raisedAt
    /\ ~WasVerified(1)
    /\ VerifiedAs(2, expected_date)
    /\ found = "found"

\* C13: with an empty candidate list search_for_project returns not-found
\* and no candidate was activated; the activations are candidates of the list
\* in strictly ascending order, so each at most once and at most N of them
\* for N candidates; when the list was enumerated and no verified date equals
\* expected_date the search returns not-found after activating every
\* candidate 1..N once; until it has returned a step is enabled.
C13_NotFoundAfterEachCandidateOnce ==
    /\ \A a \in 1..Len(attempts) : attempts[a] \in 1..Len(candidates)
    /\ \A a, b \in 1..Len(attempts) : a < b => attempts[a] < attempts[b]
    /\ Len(attempts) <= Len(candidates)
    /\ spc # "done" => ENABLED SearchNext
    /\ spc = "done" =>
           /\ candidates = <<>> => found = "not_found" /\ attempts = <<>>
           /\ (\A v \in 1..Len(verified) : verified[v][2] # expected_date) =>
                  /\ found = "not_found"
                  /\ result_items # <<>> =>
                         attempts = [j \in 1..Len(candidates) |-> j]

\* Three candidates, none with the expected date: each was activated and
\* verified once, in order, and the search returned not-found.
C13_Witness ==
    /\ spc = "done"
    /\ found = "not_found"
    /\ Len(candidates) = 3
    /\ attempts = <<1, 2, 3>>
    /\ Len(verified) = 3

\* C18: a candidate whose date did not match is dismissed before the next
\* one is activated: by the close button when one was found, by Escape when
\* none was found, and by history.back() only after that step raised; a
\* dismissal that raised does not end the search, the next candidate is still
\* activated.
C18_DismissalBeforeNextCandidate ==
    /\ \A k \in 1..Len(dismissals) :
           LET step == dismissals[k] IN
           /\ step[3] = "close" => step[2]
           /\ step[3] = "escape" => ~step[2]
           /\ step[3] = "back" =>
                  /\ k > 1
                  /\ dismissals[k - 1][1] = step[1]
                  /\ dismissals[k - 1][3] = "raised"
           /\ step[3] # "back" =>
                  \A h \in 1..(k - 1) : dismissals[h][1] < step[1]
           /\ WasVerified(step[1]) \/ step[1] \in raisedAt
           /\ ~VerifiedAs(step[1], expected_date)
    /\ \A v \in 1..Len(verified) :
           (verified[v][2] # expected_date /\ Attempted(verified[v][1] + 1)) =>
               \E k \in 1..Len(dismissals) : dismissals[k][1] = verified[v][1]
    /\ (spc = "click" /\ activeView # 0) =>
           /\ activeView < idx
           /\ \E k \in 1..Len(dismissals) :
                  dismissals[k] = <<activeView, FALSE, "raised">>
           /\ \A k \in 1..Len(dismissals) :
                  dismissals[k][1] = activeView => dismissals[k][3] = "raised"
    /\ \A k \in 1..Len(dismissals) :
           (/\ dismissals[k][3] = "raised"
            /\ dismissals[k][1] < Len(result_items)
            /\ spc \in {"click", "done"}
            /\ spc = "click" => idx > dismissals[k][1]) =>
               \/ Attempted(dismissals[k][1] + 1)
               \/ spc = "click" /\ idx = dismissals[k][1] + 1

\* Candidate 1 was dismissed by its close button; the dismissal of candidate 2
\* raised and the history was rolled back; candidate 3 was still activated and,
\* no close button being found, dismissed by Escape.
C18_Witness ==
    /\ spc = "done"
    /\ Len(candidates) = 3
    /\ attempts = <<1, 2, 3>>
    /\ \E k \in 1..Len(dismissals) : dismissals[k] = <<1, TRUE, "close">>
    /\ \E k \in 1..Len(dismissals) : dismissals[k] = <<2, FALSE, "raised">>
    /\ \E k \in 1..Len(dismissals) : dismissals[k] = <<2, FALSE, "back">>
    /\ \E k \in 1..Len(dismissals) : dismissals[k] = <<3, FALSE, "escape">>

(***************************************************************************)
(* process_project and main                                                *)
(***************************************************************************)
LocationColumn == "Location"
DateColumn == "Date of Award"
BidsColumn == "Number of Bids"
WinnerColumn == "Name of Successful Tenderer"
\* Line 448: f'Name of Other Participating Tenderer - {i+1}'.
OtherColumns == << "Name of Other Participating Tenderer - 1",
                   "Name of Other Participating Tenderer - 2",
                   "Name of Other Participating Tenderer - 3",
                   "Name of Other Participating Tenderer - 4" >>
\* Line 447: other_tenderers[:4].
MaxOthers == 4

Columns == {LocationColumn, DateColumn, BidsColumn, WinnerColumn}
               \cup {OtherColumns[i] : i \in 1..MaxOthers}

\* An empty cell as pandas reads it.
NaN == "NaN"

Locations == {"Site A", "Site B"}
AwardDates == {"2024-08-07", "2025-03-13"}
BidCounts == {1, 2}
StoredWinners == {NaN, "Old Winner"}
StoredOthers == {NaN, "Old Other"}

Row(loc, date, bids, winner, other1) ==
    [c \in Columns |->
        CASE c = LocationColumn -> loc
          [] c = DateColumn -> date
          [] c = BidsColumn -> bids
          [] c = WinnerColumn -> winner
          [] c = OtherColumns[1] -> other1
          [] OTHER -> NaN]

Rows == {Row(l, d, b, w, o) : l \in Locations, d \in AwardDates,
                             b \in BidCounts, w \in StoredWinners,
                             o \in StoredOthers}

\* What extract_tenderers (lines 395-426) can hand back: a winner, empty when
\* link, document or table extraction failed, and the runners-up.
ExtractedWinners == {"", "Alpha"}
ExtractedOthers == {<<>>, <<"Beta", "Gamma", "Delta", "Epsilon", "Zeta">>}

\* Line 484: more than one bid and no first runner-up stored yet.
NeedsTenderers(row) ==
    row[BidsColumn] > 1 /\ row[OtherColumns[1]] = NaN

\* The indices r of frame with NeedsTenderers(frame[r]), ascending (the
\* iterrows loop of lines 482-485).
RECURSIVE SelectedRows(_, _)
SelectedRows(frame, r) ==
    IF r > Len(frame) THEN <<>>
    ELSE IF NeedsTenderers(frame[r])
         THEN <<r>> \o SelectedRows(frame, r + 1)
         ELSE SelectedRows(frame, r + 1)

\* process_project (lines 429-461): the Record's dict after the call.  On a
\* found project the winner is stored whatever it is, and the first four
\* runners-up go to their columns; otherwise the dict is returned as it came.
ProcessProject(project_info, isFound, winner, others) ==
    IF ~isFound THEN project_info
    ELSE [c \in Columns |->
             IF c = WinnerColumn THEN winner
             ELSE IF \E i \in 1..MaxOthers :
                        i <= Len(others) /\ c = OtherColumns[i]
                  THEN others[CHOOSE i \in 1..MaxOthers :
                                           c = OtherColumns[i]]
                  ELSE project_info[c]]

\* Line 504: the row mask of the merge.
MaskLocationOnly(row, project) ==
    row[LocationColumn] = project[LocationColumn]

Mask(row, project) ==
    /\ row[LocationColumn] = project[LocationColumn]
    /\ row[DateColumn] = project[DateColumn]

\* Lines 502-508: every column of the project is written to the masked rows.
MergeProject(frame, project) ==
    [r \in DOMAIN frame |->
        IF Mask(frame[r], project)
        THEN [c \in Columns |->
                 IF c \in DOMAIN project THEN project[c] ELSE frame[r][c]]
        ELSE frame[r]]

MainInit ==
    /\ PdfIdle
    /\ SearchIdle
    /\ ParseIdle
    /\ DateIdle
    /\ ExtractIdle
    /\ df \in UNION {[1..n -> Rows] : n \in 1..MaxRows}
    /\ df0 = df
    /\ projects_to_process = <<>>
    /\ updated_projects = <<>>
    /\ mpc = "select"
    /\ origin = <<>>
    /\ outcomes = <<>>

\* Lines 481-487.
SelectProjects ==
    /\ mpc = "select"
    /\ origin' = SelectedRows(df, 1)
    /\ projects_to_process' = [j \in 1..Len(origin') |-> df[origin'[j]]]
    /\ mpc' = "process"
    /\ UNCHANGED <<df, df0, updated_projects, outcomes>>
    /\ UNCHANGED nonMainVars

\* What search_for_project (lines 212-289) can run into: a candidate whose
\* date verifies, an empty result list, a list without a match, or an exception
\* of the driver anywhere in its body.
SearchEvents == {"match", "no_results", "no_match", "error"}

search_for_project_unguarded(event) ==
    [raised |-> event = "error", value |-> event = "match"]

\* Lines 214, 266-289: every path returns a bool; the handlers of lines 283
\* and 287 turn any exception into False.
search_for_project(event) ==
    [raised |-> FALSE, value |-> event = "match"]

\* What extract_tenderers (lines 395-426) can run into: the document was
\* fetched and parsed, the link or the document failed (lines 410-412), or an
\* exception outside the inner handlers (lines 424-426).
ExtractEvents == {"parsed", "link_error", "error"}

\* Lines 395-426: w is the winner parsed from the document or, when that one
\* is empty, read from the page (lines 415-420); o the parsed runners-up.
extract_tenderers(event, w, o) ==
    [raised |-> FALSE,
     winner |-> IF event = "error" THEN "" ELSE w,
     others |-> IF event = "parsed" THEN o ELSE <<>>]

\* Lines 454-459: closing the popup sits in a try with a bare except, so
\* nothing it runs into leaves process_project.
ClosePopup == [raised |-> FALSE]

\* How the resolution of one Record ended.
Outcome(isFound, w, o) ==
    IF ~isFound THEN "not_found"
    ELSE IF w = "" /\ o = <<>> THEN "failed"
    ELSE IF w = "" THEN "partial"
    ELSE "resolved"

\* Lines 494-497: one iteration of the batch loop.  process_project has no
\* handler of its own, so an exception raised by one of its calls would leave
\* the loop for the handler of line 517, which ends the batch without a merge.
ProcessNext ==
    /\ mpc = "process"
    /\ Len(updated_projects) < Len(projects_to_process)
    /\ LET project == projects_to_process[Len(updated_projects) + 1] IN
       \E se \in SearchEvents, ee \in ExtractEvents,
          w \in ExtractedWinners, o \in ExtractedOthers :
           \* a value that is not used is held at one choice
           /\ se # "match" => ee = "error"
           /\ ee = "error" => w = ""
           /\ ee # "parsed" => o = <<>>
           /\ LET s == search_for_project(se)
                  e == extract_tenderers(ee, w, o)
                  raised == \/ s.raised
                            \/ s.value /\ (e.raised \/ ClosePopup.raised)
              IN  IF raised
                  THEN /\ mpc' = "error"
                       /\ UNCHANGED <<updated_projects, outcomes>>
                  ELSE /\ updated_projects' =
                              Append(updated_projects,
                                     ProcessProject(project, s.value,
                                                    e.winner, e.others))
                       /\ outcomes' =
                              Append(outcomes,
                                     Outcome(s.value, e.winner, e.others))
                       /\ mpc' = mpc
    /\ UNCHANGED <<df, df0, projects_to_process, origin>>
    /\ UNCHANGED nonMainVars

\* Lines 500-508: the whole update loop over updated_projects.
RECURSIVE MergeAll(_, _, _)
MergeAll(frame, projects, j) ==
    IF j > Len(projects) THEN frame
    ELSE MergeAll(MergeProject(frame, projects[j]), projects, j + 1)

UpdateDataFrame ==
    /\ mpc = "process"
    /\ Len(updated_projects) = Len(projects_to_process)
    /\ df' = MergeAll(df, updated_projects, 1)
    /\ mpc' = "merged"
    /\ UNCHANGED <<df0, projects_to_process, updated_projects, origin, outcomes>>
    /\ UNCHANGED nonMainVars

MainNext ==
    \/ SelectProjects
    \/ ProcessNext
    \/ UpdateDataFrame

SpecMain == MainInit /\ [][MainNext]_vars

(***************************************************************************)
(* Properties of the merge                                                 *)
(***************************************************************************)
UniqueIdentities(frame) ==
    \A r, q \in DOMAIN frame :
        (/\ frame[r][LocationColumn] = frame[q][LocationColumn]
         /\ frame[r][DateColumn] = frame[q][DateColumn]) => r = q

\* C4: a Record whose resolution failed (not found) or was partial (found,
\* but the extraction produced an empty winner) leaves its row as it was
\* before the batch, a stored 'Name of Successful Tenderer' included.
C4_FailedResolutionKeepsRow ==
    (mpc = "merged" /\ UniqueIdentities(df0)) =>
        \A j \in 1..Len(outcomes) :
            outcomes[j] \in {"not_found", "failed", "partial"} =>
                df[origin[j]] = df0[origin[j]]

\* C5: on a dataset with unique (Location, Date of Award) identities the merge
\* changes only rows whose Location and Date of Award equal those of an
\* enriched Record, at most the one row each Record was read from; every
\* other row keeps every column, and no row is added or removed.
C5_MergeTouchesOnlyMatchingRow ==
    (mpc = "merged" /\ UniqueIdentities(df0)) =>
        /\ DOMAIN df = DOMAIN df0
        /\ \A r \in DOMAIN df0 :
               df[r] # df0[r] =>
                   /\ \E j \in 1..Len(updated_projects) :
                          /\ origin[j] = r
                          /\ Mask(df0[r], updated_projects[j])
                   /\ df[r][LocationColumn] = df0[r][LocationColumn]
                   /\ df[r][DateColumn] = df0[r][DateColumn]

\* A resolved Record was merged into its row while the other row, same
\* Location and another award date, kept its stored values.
C5_Witness ==
    /\ mpc = "merged"
    /\ Len(df) = 2
    /\ df0[1][LocationColumn] = df0[2][LocationColumn]
    /\ df0[1][DateColumn] # df0[2][DateColumn]
    /\ outcomes = <<"resolved">>
    /\ origin = <<1>>
    /\ df[1][WinnerColumn] = "Alpha"
    /\ df[1][OtherColumns[4]] = "Epsilon"
    /\ df[2] = df0[2]
    /\ df0[2][WinnerColumn] = "Old Winner"

(***************************************************************************)
(* Strings.  A Python str is modelled as a sequence of one-character       *)
(* strings, so that strip, upper, "in", split and the regular expression   *)
(* of line 379 are computed character by character.                        *)
(***************************************************************************)
LowerCase == <<"a", "b", "c", "d", "e", "f", "g", "h", "i", "j", "k", "l", "m",
               "n", "o", "p", "q", "r", "s", "t", "u", "v", "w", "x", "y", "z">>
UpperCase == <<"A", "B", "C", "D", "E", "F", "G", "H", "I", "J", "K", "L", "M",
               "N", "O", "P", "Q", "R", "S", "T", "U", "V", "W", "X", "Y", "Z">>
Digits == <<"0", "1", "2", "3", "4", "5", "6", "7", "8", "9">>
Whitespace == {" ", "\t", "\r", "\n"}

IsDigit(c) == \E k \in 1..Len(Digits) : Digits[k] = c
DigitValue(c) == (CHOOSE k \in 1..Len(Digits) : Digits[k] = c) - 1

\* str.upper().
UpperChar(c) ==
    IF \E k \in 1..Len(LowerCase) : LowerCase[k] = c
    THEN UpperCase[CHOOSE k \in 1..Len(LowerCase) : LowerCase[k] = c]
    ELSE c
Upper(str) == [k \in 1..Len(str) |-> UpperChar(str[k])]

\* The number of leading characters of str, from position from on, in set.
RECURSIVE Run(_, _, _)
Run(str, from, set) ==
    IF from <= Len(str) /\ str[from] \in set
    THEN 1 + Run(str, from + 1, set)
    ELSE 0

\* The number of trailing characters of str in set.
RECURSIVE RunBack(_, _)
RunBack(str, set) ==
    IF Len(str) > 0 /\ str[Len(str)] \in set
    THEN 1 + RunBack(SubSeq(str, 1, Len(str) - 1), set)
    ELSE 0

\* str.strip().
Strip(str) ==
    LET lead == Run(str, 1, Whitespace) IN
    IF lead = Len(str) THEN <<>>
    ELSE SubSeq(str, lead + 1, Len(str) - RunBack(str, Whitespace))

\* sub in str.
Contains(str, sub) ==
    \E k \in 0..(Len(str) - Len(sub)) : SubSeq(str, k + 1, k + Len(sub)) = sub

\* int(digits).
RECURSIVE ToInt(_)
ToInt(digits) ==
    IF digits = <<>> THEN 0
    ELSE 10 * ToInt(SubSeq(digits, 1, Len(digits) - 1))
         + DigitValue(digits[Len(digits)])

\* str.split(sep) for a one-character separator: "" gives [""].
RECURSIVE Split(_, _)
Split(str, sep) ==
    IF \E k \in 1..Len(str) : str[k] = sep
    THEN LET k == CHOOSE j \in 1..Len(str) :
                      str[j] = sep /\ \A m \in 1..(j - 1) : str[m] # sep
         IN <<SubSeq(str, 1, k - 1)>> \o Split(SubSeq(str, k + 1, Len(str)), sep)
    ELSE <<str>>

\* sep.join(parts).
RECURSIVE Join(_, _)
Join(parts, sep) ==
    IF parts = <<>> THEN <<>>
    ELSE IF Len(parts) = 1 THEN parts[1]
    ELSE parts[1] \o <<sep>> \o Join(Tail(parts), sep)

(***************************************************************************)
(* extract_tenderers_from_pdf_text                                         *)
(***************************************************************************)
SUCCESSFUL_TENDERER ==
    <<"S", "U", "C", "C", "E", "S", "S", "F", "U", "L", " ", "T", "E", "N",
      "D", "E", "R", "E", "R">>
RANKING ==
    <<"R", "A", "N", "K", "I", "N", "G">>
NAME_OF_TENDERER ==
    <<"N", "A", "M", "E", " ", "O", "F", " ", "T", "E", "N", "D", "E", "R",
      "E", "R">>

\* The lines the input texts are made of.
HeaderLine ==
    <<"R", "A", "N", "K", "I", "N", "G", " ", "N", "A", "M", "E", " ", "O",
      "F", " ", "T", "E", "N", "D", "E", "R", "E", "R">>
LabelLine ==
    <<"S", "u", "c", "c", "e", "s", "s", "f", "u", "l", " ", "T", "e", "n",
      "d", "e", "r", "e", "r", ":">>
AlphaLine ==
    <<"1", " ", "A", "l", "p", "h", "a", " ", "P", "t", "e", " ", "L", "t",
      "d">>
BetaLine ==
    <<"2", " ", "B", "e", "t", "a", " ", "P", "t", "e", " ", "L", "t", "d">>
GammaLine ==
    <<"3", " ", "G", "a", "m", "m", "a">>
BlankLine ==
    <<>>
AlphaName ==
    <<"A", "l", "p", "h", "a", " ", "P", "t", "e", " ", "L", "t", "d">>
BetaName ==
    <<"B", "e", "t", "a", " ", "P", "t", "e", " ", "L", "t", "d">>
InputLines == {HeaderLine, LabelLine, AlphaLine, BetaLine, GammaLine, BlankLine}

\* re.match(r'^\s*(\d+)\s+(.+)$', str): leading whitespace, a run of digits,
\* at least one whitespace character, then at least one more character (which
\* the whitespace run gives up when nothing follows it).
RankMatch(str) ==
    LET lead == Run(str, 1, Whitespace)
        digits == Run(str, lead + 1, {Digits[k] : k \in 1..Len(Digits)})
        gap == Run(str, lead + digits + 1, Whitespace \ {"\n"})
        used == lead + digits + gap
        matched == /\ digits >= 1
                   /\ gap >= 1
                   /\ (used < Len(str) \/ gap >= 2)
    IN [matched |-> matched,
        rank |-> IF matched
                 THEN SubSeq(str, lead + 1, lead + digits) ELSE <<>>,
        name |-> IF ~matched THEN <<>>
                 ELSE IF used < Len(str) THEN SubSeq(str, used + 1, Len(str))
                 ELSE SubSeq(str, used, Len(str))]

IsLabelCaseSensitive(line) == Contains(line, SUCCESSFUL_TENDERER)

\* Line 367.
IsLabel(line) == Contains(Upper(line), SUCCESSFUL_TENDERER)

\* Line 373.
IsHeader(line) ==
    Contains(Upper(line), RANKING) /\ Contains(Upper(line), NAME_OF_TENDERER)

\* Line 387: other_tenderers.append(company_name).
AppendOtherUnique(others, company_name) ==
    IF \E k \in 1..Len(others) : others[k] = company_name
    THEN others
    ELSE Append(others, company_name)

AppendOther(others, company_name) == Append(others, company_name)

\* Lines 388-390: an empty line ends the table.
EndsTableNever(line) == FALSE

EndsTable(line) == Strip(line) = <<>>

\* The text of the example of the ranking table: header, ranks 1 and 2, a
\* blank line, "3 Gamma".
ExampleText ==
    Join(<<HeaderLine, AlphaLine, BetaLine, BlankLine, GammaLine>>, "\n")

\* The texts parsed: every text of at most MaxLines input lines, and the
\* example.
InputTexts ==
    {Join(ls, "\n") : ls \in SeqUpTo(InputLines, MaxLines)} \cup {ExampleText}

ParseInit ==
    /\ PdfIdle
    /\ SearchIdle
    /\ MainIdle
    /\ DateIdle
    /\ ExtractIdle
    /\ pdf_text \in InputTexts
    /\ lines = <<>>
    /\ line_no = 0
    /\ successful_tenderer = <<>>
    /\ other_tenderers = <<>>
    /\ found_table = FALSE
    /\ ppc = "split"
    /\ winner_from = 0
    /\ winner_via = "none"
    /\ others_from = <<>>

\* Lines 359-363.
SplitText ==
    /\ ppc = "split"
    /\ lines' = Split(pdf_text, "\n")
    /\ line_no' = 1
    /\ ppc' = "scan"
    /\ UNCHANGED <<pdf_text, successful_tenderer, other_tenderers, found_table,
                   winner_from, winner_via, others_from>>
    /\ UNCHANGED nonParseVars

\* Lines 365-390: the loop body for lines[line_no].
ScanLine ==
    /\ ppc = "scan"
    /\ line_no <= Len(lines)
    /\ LET line == lines[line_no]
           labelled == IsLabel(line) /\ line_no + 1 <= Len(lines)
           \* after lines 367-370
           st1 == IF labelled THEN Strip(lines[line_no + 1])
                  ELSE successful_tenderer
           from1 == IF labelled THEN line_no + 1 ELSE winner_from
           via1 == IF labelled THEN "label" ELSE winner_via
           match == RankMatch(Strip(line))
           ranking == ToInt(match.rank)
           company_name == Strip(match.name)
       IN IF IsHeader(line)
          THEN \* lines 373-375
               /\ found_table' = TRUE
               /\ successful_tenderer' = st1
               /\ winner_from' = from1
               /\ winner_via' = via1
               /\ UNCHANGED <<other_tenderers, others_from>>
          ELSE IF found_table /\ match.matched
          THEN \* lines 380-387
               /\ found_table' = found_table
               /\ IF ranking = 1
                  THEN /\ successful_tenderer' = company_name
                       /\ winner_from' = line_no
                       /\ winner_via' = "table"
                       /\ UNCHANGED <<other_tenderers, others_from>>
                  ELSE /\ other_tenderers' =
                           AppendOther(other_tenderers, company_name)
                       /\ others_from' = Append(others_from, line_no)
                       /\ successful_tenderer' = st1
                       /\ winner_from' = from1
                       /\ winner_via' = via1
          ELSE \* lines 388-390, or not in a table
               /\ found_table' = (found_table /\ ~EndsTable(line))
               /\ successful_tenderer' = st1
               /\ winner_from' = from1
               /\ winner_via' = via1
               /\ UNCHANGED <<other_tenderers, others_from>>
    /\ line_no' = line_no + 1
    /\ UNCHANGED <<pdf_text, lines, ppc>>
    /\ UNCHANGED nonParseVars

\* Line 392.
ParseReturn ==
    /\ ppc = "scan"
    /\ line_no > Len(lines)
    /\ ppc' = "done"
    /\ UNCHANGED <<pdf_text, lines, line_no, successful_tenderer,
                   other_tenderers, found_table, winner_from, winner_via,
                   others_from>>
    /\ UNCHANGED nonParseVars

ParseNext ==
    \/ SplitText
    \/ ScanLine
    \/ ParseReturn

SpecParse == ParseInit /\ [][ParseNext]_vars

(***************************************************************************)
(* Properties of extract_tenderers_from_pdf_text                           *)
(***************************************************************************)
\* Line j is a numbered line behind a blank line that follows a header, with
\* no new header between that blank line and line j.
NumberedAfterBlank(j) ==
    /\ j \in 1..Len(lines)
    /\ RankMatch(Strip(lines[j])).matched
    /\ \E b \in 1..(j - 1) :
           /\ Strip(lines[b]) = <<>>
           /\ \E h \in 1..(b - 1) : IsHeader(lines[h])
           /\ \A m \in (b + 1)..(j - 1) : ~IsHeader(lines[m])

ExampleResult ==
    (ppc = "done" /\ pdf_text = ExampleText) =>
        /\ successful_tenderer = AlphaName
        /\ other_tenderers = <<BetaName>>

\* C9 as stated: table scanning ends at the first blank line after the
\* header, and a numbered line behind that blank line (no new header in
\* between) is never captured as winner or runner-up; the example text gives
\* winner "Alpha Pte Ltd" and runners-up ["Beta Pte Ltd"].
C9_NumberedLineAfterBlankNeverCaptured ==
    /\ ~NumberedAfterBlank(winner_from)
    /\ \A k \in 1..Len(others_from) : ~NumberedAfterBlank(others_from[k])
    /\ ExampleResult

\* C9 amended: such a numbered line is never captured by table scanning, as
\* winner or as runner-up; it becomes the winner only as the line that
\* follows a 'SUCCESSFUL TENDERER' label, and then whole, rank included.
C9_NumberedLineAfterBlankNotScanned ==
    /\ NumberedAfterBlank(winner_from) =>
           /\ winner_via = "label"
           /\ IsLabel(lines[winner_from - 1])
           /\ successful_tenderer = Strip(lines[winner_from])
    /\ \A k \in 1..Len(others_from) : ~NumberedAfterBlank(others_from[k])
    /\ (ppc = "scan" /\ line_no > 1 /\ found_table) =>
           \E h \in 1..(line_no - 1) :
               /\ IsHeader(lines[h])
               /\ \A b \in (h + 1)..(line_no - 1) : Strip(lines[b]) # <<>>
    /\ ExampleResult

\* The example text was parsed to the end: "3 Gamma" behind the blank line is
\* in neither output.
C9_Witness ==
    /\ ppc = "done"
    /\ pdf_text = ExampleText
    /\ successful_tenderer = AlphaName
    /\ other_tenderers = <<BetaName>>
    /\ others_from = <<3>>
    /\ ~found_table

\* Line j lies in a ranking table: a header precedes it with no blank line
\* between the two.
InTable(j) ==
    \E h \in 1..(j - 1) :
        /\ IsHeader(lines[h])
        /\ \A b \in (h + 1)..(j - 1) : Strip(lines[b]) # <<>>

\* Line j is a '<digits> <name>' line of a ranking table.
TableLine(j) ==
    /\ j \in 1..Len(lines)
    /\ InTable(j)
    /\ ~IsHeader(lines[j])
    /\ RankMatch(Strip(lines[j])).matched

RankOf(j) == ToInt(RankMatch(Strip(lines[j])).rank)
NameOf(j) == Strip(RankMatch(Strip(lines[j])).name)

\* C14: when a rank-1 line of a ranking table was scanned, the returned winner
\* is the name of a rank-1 table line, wherever a 'SUCCESSFUL TENDERER' label
\* occurs.
C14_TableWinnerBeatsLabel ==
    (ppc = "done" /\ \E j \in 1..Len(lines) : TableLine(j) /\ RankOf(j) = 1) =>
        \E j \in 1..Len(lines) :
            /\ TableLine(j)
            /\ RankOf(j) = 1
            /\ successful_tenderer = NameOf(j)

\* C15: the runners-up are exactly the names of the table lines with a rank
\* other than 1 among the lines scanned so far, in text order, one entry per
\* line; a line outside a table contributes nothing.
C15_RunnersUpAreTableLinesInTextOrder ==
    ppc # "split" =>
        /\ Len(other_tenderers) = Len(others_from)
        /\ \A k \in 1..Len(others_from) :
               /\ TableLine(others_from[k])
               /\ RankOf(others_from[k]) # 1
               /\ other_tenderers[k] = NameOf(others_from[k])
               /\ k > 1 => others_from[k - 1] < others_from[k]
        /\ \A j \in 1..(line_no - 1) :
               (TableLine(j) /\ RankOf(j) # 1) =>
                   \E k \in 1..Len(others_from) : others_from[k] = j

\* Rank 3 before rank 2 and rank 2 twice: the runners-up keep the order and
\* the repetition of the text; the numbered line ahead of the header is not
\* among them.
C15_Witness ==
    /\ ppc = "done"
    /\ lines = <<BetaLine, HeaderLine, GammaLine, BetaLine>>
    /\ other_tenderers = << <<"G", "a", "m", "m", "a">>, BetaName >>
    /\ others_from = <<3, 4>>

\* C16: the runners-up, of which process_project writes the first four to the
\* 'Name of Other Participating Tenderer' columns, are in ascending rank
\* order.
C16_RunnersUpAscendingByRank ==
    ppc = "done" =>
        \A k \in 2..Len(others_from) :
            RankOf(others_from[k - 1]) <= RankOf(others_from[k])

\* Some line holds the label, whatever its letter case.
HasLabel == \E j \in 1..Len(lines) :
                Contains(Upper(lines[j]), SUCCESSFUL_TENDERER)
HasHeader == \E j \in 1..Len(lines) :
                 /\ Contains(Upper(lines[j]), RANKING)
                 /\ Contains(Upper(lines[j]), NAME_OF_TENDERER)

\* C17 as stated: with a label and no header the winner is the trimmed line
\* after a label and the runners-up are empty; with neither both are empty.
C17_LabelWithoutTable ==
    (ppc = "done" /\ ~HasHeader) =>
        /\ other_tenderers = <<>>
        /\ HasLabel =>
               \E j \in 1..(Len(lines) - 1) :
                   /\ Contains(Upper(lines[j]), SUCCESSFUL_TENDERER)
                   /\ successful_tenderer = Strip(lines[j + 1])
        /\ ~HasLabel => successful_tenderer = <<>>

\* C17 amended: with no header the runners-up are empty and the winner is the
\* trimmed line after the last label that has a line after it; it is empty
\* when there is no label or the only label is the last line of the text.
C17_LabelWithoutTableUnlessLabelLast ==
    (ppc = "done" /\ ~HasHeader) =>
        LET followed == {j \in 1..(Len(lines) - 1) :
                            Contains(Upper(lines[j]), SUCCESSFUL_TENDERER)}
        IN  /\ other_tenderers = <<>>
            /\ followed # {} =>
                   \E j \in followed :
                       /\ \A i \in followed : i <= j
                       /\ successful_tenderer = Strip(lines[j + 1])
            /\ followed = {} => successful_tenderer = <<>>

\* A label, then a numbered line, then a label on the last line: the winner is
\* the whole line after the first label, and there are no runners-up.
C17_Witness ==
    /\ ppc = "done"
    /\ lines = <<LabelLine, BetaLine, LabelLine>>
    /\ successful_tenderer = BetaLine
    /\ other_tenderers = <<>>

(***************************************************************************)
(* format_date_for_search                                                  *)
(***************************************************************************)
\* Python values handed to format_date_for_search: a datetime.datetime, a
\* datetime.date, a str, or a missing value (float NaN).
DateTimeValue(y, m, d) ==
    [type |-> "datetime", year |-> y, month |-> m, day |-> d, chars |-> <<>>]
DateValue(y, m, d) ==
    [type |-> "date", year |-> y, month |-> m, day |-> d, chars |-> <<>>]
StrValue(str) ==
    [type |-> "str", year |-> 0, month |-> 0, day |-> 0, chars |-> str]
NaNValue ==
    [type |-> "float", year |-> 0, month |-> 0, day |-> 0, chars |-> <<>>]

\* The abbreviated month names of %b.
MonthAbbr ==
    <<<<"J", "a", "n">>,
      <<"F", "e", "b">>,
      <<"M", "a", "r">>,
      <<"A", "p", "r">>,
      <<"M", "a", "y">>,
      <<"J", "u", "n">>,
      <<"J", "u", "l">>,
      <<"A", "u", "g">>,
      <<"S", "e", "p">>,
      <<"O", "c", "t">>,
      <<"N", "o", "v">>,
      <<"D", "e", "c">>>>

IsLeap(y) == (y % 4 = 0 /\ y % 100 # 0) \/ y % 400 = 0
DaysInMonth(y, m) ==
    IF m = 2 THEN (IF IsLeap(y) THEN 29 ELSE 28)
    ELSE IF m \in {4, 6, 9, 11} THEN 30 ELSE 31
\* What the datetime constructor accepts.
ValidDate(y, m, d) ==
    /\ y \in 1..9999
    /\ m \in 1..12
    /\ d \in 1..DaysInMonth(y, m)

DigitChar(n) == Digits[n + 1]
Pad2(n) == <<DigitChar((n \div 10) % 10), DigitChar(n % 10)>>
Pad4(n) == Pad2(n \div 100) \o Pad2(n % 100)

\* strftime("%d-%b-%y").
Strftime_dby(y, m, d) ==
    Pad2(d) \o <<"-">> \o MonthAbbr[m] \o <<"-">> \o Pad2(y % 100)

\* str.lstrip("0").
LStripZero(str) == SubSeq(str, Run(str, 1, {"0"}) + 1, Len(str))

PyStrEmpty(v) == <<>>

\* str(x) of a value that is neither a datetime nor a str (line 120):
\* datetime.date prints as YYYY-MM-DD, float NaN as "nan".
PyStr(v) ==
    IF v.type = "date"
    THEN Pad4(v.year) \o <<"-">> \o Pad2(v.month) \o <<"-">> \o Pad2(v.day)
    ELSE <<"n", "a", "n">>

\* The field patterns of strptime: %Y is \d\d\d\d, %m is 1[0-2]|0[1-9]|[1-9],
\* %d is 3[01]|[12]\d|0[1-9]|[1-9]| [1-9], %y is \d\d, %b a month
\* abbreviation in any letter case.
AllDigits(f) == \A k \in 1..Len(f) : IsDigit(f[k])
NonZeroDigit(c) == IsDigit(c) /\ c # "0"
MatchY(f) == Len(f) = 4 /\ AllDigits(f)
MatchM(f) ==
    \/ Len(f) = 2 /\ f[1] = "1" /\ f[2] \in {"0", "1", "2"}
    \/ Len(f) = 2 /\ f[1] = "0" /\ NonZeroDigit(f[2])
    \/ Len(f) = 1 /\ NonZeroDigit(f[1])
MatchD(f) ==
    \/ Len(f) = 2 /\ f[1] = "3" /\ f[2] \in {"0", "1"}
    \/ Len(f) = 2 /\ f[1] \in {"1", "2"} /\ IsDigit(f[2])
    \/ Len(f) = 2 /\ f[1] = "0" /\ NonZeroDigit(f[2])
    \/ Len(f) = 1 /\ NonZeroDigit(f[1])
    \/ Len(f) = 2 /\ f[1] = " " /\ NonZeroDigit(f[2])
MatchSmallY(f) == Len(f) = 2 /\ AllDigits(f)
MatchB(f) == \E m \in 1..12 : Upper(f) = Upper(MonthAbbr[m])
MonthOf(f) == CHOOSE m \in 1..12 : Upper(f) = Upper(MonthAbbr[m])
\* %y: 00-68 are 2000-2068, 69-99 are 1969-1999.
CenturyOf(yy) == IF yy <= 68 THEN 2000 + yy ELSE 1900 + yy

NoDate == [ok |-> FALSE, year |-> 0, month |-> 0, day |-> 0]

\* datetime.strptime(str, "%Y-%m-%d"); ok is FALSE for a ValueError.
Strptime_Ymd(str) ==
    LET f == Split(str, "-") IN
    IF Len(f) = 3 /\ MatchY(f[1]) /\ MatchM(f[2]) /\ MatchD(f[3])
    THEN LET y == ToInt(f[1])
             m == ToInt(f[2])
             d == ToInt(Strip(f[3]))
         IN IF ValidDate(y, m, d)
            THEN [ok |-> TRUE, year |-> y, month |-> m, day |-> d]
            ELSE NoDate
    ELSE NoDate

\* datetime.strptime(str, "%d-%b-%y").
Strptime_dby(str) ==
    LET f == Split(str, "-") IN
    IF Len(f) = 3 /\ MatchD(f[1]) /\ MatchB(f[2]) /\ MatchSmallY(f[3])
    THEN LET y == CenturyOf(ToInt(f[3]))
             m == MonthOf(f[2])
             d == ToInt(Strip(f[1]))
         IN IF ValidDate(y, m, d)
            THEN [ok |-> TRUE, year |-> y, month |-> m, day |-> d]
            ELSE NoDate
    ELSE NoDate

\* format_date_for_search (lines 99-120); the result is a str.
format_date_for_search(v) ==
    IF v.type = "datetime"
    THEN LStripZero(Strftime_dby(v.year, v.month, v.day))
    ELSE IF v.type = "str"
    THEN LET str == v.chars
             date_obj == IF Contains(str, <<" ">>)
                         THEN Strptime_Ymd(Split(str, " ")[1])
                         ELSE Strptime_Ymd(str)
         IN IF date_obj.ok
            THEN LStripZero(Strftime_dby(date_obj.year, date_obj.month,
                                         date_obj.day))
            ELSE IF Strptime_dby(str).ok
            THEN str    \* line 116: already in the correct format
            ELSE str    \* line 119: returned as it came
    ELSE PyStr(v)

\* The calendar dates the inputs are made of.
Years == {1999, 2000, 2024, 2025}
Months == {2, 3, 8, 12}
Days == {1, 7, 13, 29, 30}
CalendarDates ==
    {ymd \in Years \X Months \X Days : ValidDate(ymd[1], ymd[2], ymd[3])}

\* The accepted string shapes of a date, and some strings that are no date.
IsoString(y, m, d) == Pad4(y) \o <<"-">> \o Pad2(m) \o <<"-">> \o Pad2(d)
MidnightSuffix == <<" ", "0", "0", ":", "0", "0", ":", "0", "0">>
OtherStrings ==
    {<<>>, <<"n", "a", "n">>, <<"t", "b", "c">>,
     <<"2", "0", "2", "5", "-", "0", "2", "-", "3", "0">>,
     <<"2", "0", "2", "5", "-", "3", "-", "1", "3">>,
     <<"1", "3", "/", "0", "3", "/", "2", "0", "2", "5">>,
     <<" ", "7", "-", "A", "u", "g", "-", "2", "4">>,
     <<"7", "-", "a", "u", "g", "-", "2", "4">>,
     <<"7", " ", "A", "u", "g", " ", "2", "0", "2", "4">>}

DateInputs ==
    {DateTimeValue(c[1], c[2], c[3]) : c \in CalendarDates}
    \cup {DateValue(c[1], c[2], c[3]) : c \in CalendarDates}
    \cup {StrValue(IsoString(c[1], c[2], c[3])) : c \in CalendarDates}
    \cup {StrValue(IsoString(c[1], c[2], c[3]) \o MidnightSuffix) :
              c \in CalendarDates}
    \cup {StrValue(Strftime_dby(c[1], c[2], c[3])) : c \in CalendarDates}
    \cup {StrValue(LStripZero(Strftime_dby(c[1], c[2], c[3]))) :
              c \in CalendarDates}
    \cup {StrValue(str) : str \in OtherStrings}
    \cup {NaNValue}

DateInit ==
    /\ PdfIdle
    /\ SearchIdle
    /\ MainIdle
    /\ ParseIdle
    /\ ExtractIdle
    /\ date_input \in DateInputs
    /\ once = <<>>
    /\ twice = <<>>
    /\ dpc = "input"

\* expected_date = format_date_for_search(raw_date), line 436.
FormatOnce ==
    /\ dpc = "input"
    /\ once' = format_date_for_search(date_input)
    /\ dpc' = "once"
    /\ UNCHANGED <<date_input, twice>>
    /\ UNCHANGED nonDateVars

\* The function applied to its own output.
FormatTwice ==
    /\ dpc = "once"
    /\ twice' = format_date_for_search(StrValue(once))
    /\ dpc' = "twice"
    /\ UNCHANGED <<date_input, once>>
    /\ UNCHANGED nonDateVars

DateNext ==
    \/ FormatOnce
    \/ FormatTwice

SpecDate == DateInit /\ [][DateNext]_vars

(***************************************************************************)
(* Properties of format_date_for_search                                    *)
(***************************************************************************)
\* C10: format_date_for_search is idempotent: for every input x,
\* format_date_for_search(format_date_for_search(x)) equals
\* format_date_for_search(x).
C10_FormatIdempotent ==
    dpc = "twice" => twice = once

\* The canonical D-Mon-YY form of a calendar date: the day without a leading
\* zero, the abbreviated month, the last two digits of the year.
CanonicalDate(y, m, d) ==
    (IF d < 10 THEN <<DigitChar(d)>> ELSE Pad2(d))
        \o <<"-">> \o MonthAbbr[m] \o <<"-">> \o Pad2(y % 100)

\* The accepted input shapes that represent the calendar date c: native
\* date/time values, 'YYYY-MM-DD', 'YYYY-MM-DD' followed by a space and a time,
\* and day-Mon-yy strings.
ShapesOf(c) ==
    {DateTimeValue(c[1], c[2], c[3]),
     DateValue(c[1], c[2], c[3]),
     StrValue(IsoString(c[1], c[2], c[3])),
     StrValue(IsoString(c[1], c[2], c[3]) \o MidnightSuffix),
     StrValue(Strftime_dby(c[1], c[2], c[3])),
     StrValue(LStripZero(Strftime_dby(c[1], c[2], c[3])))}

\* C11: for every calendar date and every accepted input shape representing
\* it, format_date_for_search returns the same canonical D-Mon-YY string with
\* no leading zero on the day, which is the form expected_date is compared in.
C11_EveryShapeGivesCanonical ==
    dpc # "input" =>
        \A c \in CalendarDates :
            date_input \in ShapesOf(c) => once = CanonicalDate(c[1], c[2], c[3])

(***************************************************************************)
(* Properties of the batch loop                                            *)
(***************************************************************************)
\* C12: no failure while one Record is processed ends the batch.  The loop
\* never reaches the handler of line 517; the Records processed so far are the
\* selected ones, each once and in dataset order; while the merge has not
\* happened a step of the batch is enabled, and the merge happens only after
\* every selected Record was processed; a Record that was not found is
\* returned as it was selected, and one whose extraction failed is returned
\* with an empty winner and its runner-up columns as they were.
C12_BatchNeverTerminatedByRecord ==
    /\ mpc # "error"
    /\ mpc # "merged" => ENABLED MainNext
    /\ mpc = "merged" => Len(updated_projects) = Len(projects_to_process)
    /\ Len(updated_projects) <= Len(projects_to_process)
    /\ Len(outcomes) = Len(updated_projects)
    /\ mpc # "select" =>
           /\ \A j \in 1..Len(origin) :
                  /\ NeedsTenderers(df0[origin[j]])
                  /\ projects_to_process[j] = df0[origin[j]]
                  /\ j > 1 => origin[j - 1] < origin[j]
           /\ \A r \in DOMAIN df0 :
                  NeedsTenderers(df0[r]) =>
                      \E j \in 1..Len(origin) : origin[j] = r
    /\ \A j \in 1..Len(updated_projects) :
           /\ updated_projects[j][LocationColumn] =
                  projects_to_process[j][LocationColumn]
           /\ updated_projects[j][DateColumn] =
                  projects_to_process[j][DateColumn]
           /\ outcomes[j] = "not_found" =>
                  updated_projects[j] = projects_to_process[j]
           /\ outcomes[j] = "failed" =>
                  /\ updated_projects[j][WinnerColumn] = ""
                  /\ \A i \in 1..MaxOthers :
                         updated_projects[j][OtherColumns[i]] =
                             projects_to_process[j][OtherColumns[i]]

\* Two Records were selected; the first was not found, the extraction of the
\* second failed, and the batch went on to the merge.
C12_Witness ==
    /\ mpc = "merged"
    /\ origin = <<1, 2>>
    /\ outcomes = <<"not_found", "failed">>
    /\ updated_projects[1] = df0[1]
    /\ updated_projects[2][WinnerColumn] = ""

\* Strings that are a date in neither '%Y-%m-%d' nor '%d-%b-%y'.
UnparseableStrings ==
    {<<>>, <<"n", "a", "n">>, <<"t", "b", "c">>,
     <<"2", "0", "2", "5", "-", "0", "2", "-", "3", "0">>,
     <<"1", "3", "/", "0", "3", "/", "2", "0", "2", "5">>,
     <<"7", " ", "A", "u", "g", " ", "2", "0", "2", "4">>}

\* C19 as stated: for an unparseable string or a missing value
\* format_date_for_search returns, without raising, the original input.
C19_ReturnsInputUnchanged ==
    (/\ dpc # "input"
     /\ \/ date_input \in {StrValue(str) : str \in UnparseableStrings}
        \/ date_input = NaNValue) =>
        StrValue(once) = date_input

\* C19 amended: an unparseable string is returned unchanged; a missing value,
\* which is no string, is returned as its string rendering 'nan'.
C19_ReturnsInputOrItsRendering ==
    dpc # "input" =>
        /\ date_input \in {StrValue(str) : str \in UnparseableStrings} =>
               StrValue(once) = date_input
        /\ date_input = NaNValue => once = <<"n", "a", "n">>

\* The missing value went in and the string 'nan' came out.
C19_Witness ==
    /\ dpc = "once"
    /\ date_input = NaNValue
    /\ once = <<"n", "a", "n">>
    /\ StrValue(once) # date_input

(***************************************************************************)
(* extract_date_from_text                                                  *)
(***************************************************************************)
MaxFragments == 2

Letters == {LowerCase[k] : k \in 1..Len(LowerCase)}
               \cup {UpperCase[k] : k \in 1..Len(UpperCase)}
DigitSet == {Digits[k] : k \in 1..Len(Digits)}
\* [-\s]
Separators == Whitespace \cup {"-"}

DATE_OF_AWARD ==
    <<"D", "A", "T", "E", " ", "O", "F", " ", "A", "W", "A", "R", "D">>

\* The full month names of %B.
MonthFull ==
    <<<<"J", "a", "n", "u", "a", "r", "y">>,
      <<"F", "e", "b", "r", "u", "a", "r", "y">>,
      <<"M", "a", "r", "c", "h">>,
      <<"A", "p", "r", "i", "l">>,
      <<"M", "a", "y">>,
      <<"J", "u", "n", "e">>,
      <<"J", "u", "l", "y">>,
      <<"A", "u", "g", "u", "s", "t">>,
      <<"S", "e", "p", "t", "e", "m", "b", "e", "r">>,
      <<"O", "c", "t", "o", "b", "e", "r">>,
      <<"N", "o", "v", "e", "m", "b", "e", "r">>,
      <<"D", "e", "c", "e", "m", "b", "e", "r">>>>

\* The pieces the detail texts are made of: the five named ones and
\* "Date of award", "07 August 2024", "13 Mar 2025", "31-Feb-2024",
\* "7-Sept-2024", "3 May 2025", "Lot 5".
LabelFragment ==
    <<"D", "A", "T", "E", " ", "O", "F", " ", "A", "W", "A", "R", "D", ":">>
LongYearFragment ==
    <<"7", "-", "A", "u", "g", "-", "2", "0", "2", "4">>
ShortYearFragment ==
    <<"7", "-", "A", "u", "g", "-", "2", "4">>
NoDateFragment ==
    <<"n", "o", " ", "d", "a", "t", "e", " ", "h", "e", "r", "e">>
NotADateFragment ==
    <<"9", "9", " ", "F", "o", "o", " ", "2", "0", "2", "4">>
Fragments ==
    {LabelFragment,
     LongYearFragment,
     ShortYearFragment,
     NoDateFragment,
     NotADateFragment,
     <<"D", "a", "t", "e", " ", "o", "f", " ", "a", "w", "a", "r", "d">>,
     <<"0", "7", " ", "A", "u", "g", "u", "s", "t", " ", "2", "0", "2", "4">>,
     <<"1", "3", " ", "M", "a", "r", " ", "2", "0", "2", "5">>,
     <<"3", "1", "-", "F", "e", "b", "-", "2", "0", "2", "4">>,
     <<"7", "-", "S", "e", "p", "t", "-", "2", "0", "2", "4">>,
     <<"3", " ", "M", "a", "y", " ", "2", "0", "2", "5">>,
     <<"L", "o", "t", " ", "5">>}

\* The texts handed to extract_date_from_text: at most MaxFragments pieces
\* with a space between them.
DetailTexts == {Join(fs, " ") : fs \in SeqUpTo(Fragments, MaxFragments)}

Min(a, b) == IF a < b THEN a ELSE b

NoMatch == [matched |-> FALSE, day |-> <<>>, month |-> <<>>, year |-> <<>>]

\* (\d{1,2})[-\s]+([A-Za-z]+)[-\s]+(\d{4}) tried at position p.  Every run is
\* followed by a character outside its class, so a shorter run never helps:
\* the day is the digit run at p cut at two, a third digit fails the match.
MatchDayMonthYear(str, p) ==
    LET nd == Min(Run(str, p, DigitSet), 2)
        s1 == Run(str, p + nd, Separators)
        nl == Run(str, p + nd + s1, Letters)
        s2 == Run(str, p + nd + s1 + nl, Separators)
        y0 == p + nd + s1 + nl + s2
    IN IF nd >= 1 /\ s1 >= 1 /\ nl >= 1 /\ s2 >= 1
           /\ Run(str, y0, DigitSet) >= 4
       THEN [matched |-> TRUE,
             day |-> SubSeq(str, p, p + nd - 1),
             month |-> SubSeq(str, p + nd + s1, p + nd + s1 + nl - 1),
             year |-> SubSeq(str, y0, y0 + 3)]
       ELSE NoMatch

\* (\d{1,2})-([A-Za-z]{3})-(\d{2}) tried at position p.
MatchDayMonYy(str, p) ==
    LET nd == Min(Run(str, p, DigitSet), 2)
        m0 == p + nd + 1
    IN IF /\ nd >= 1
          /\ m0 + 5 <= Len(str)
          /\ str[m0 - 1] = "-"
          /\ \A k \in 0..2 : str[m0 + k] \in Letters
          /\ str[m0 + 3] = "-"
          /\ \A k \in 4..5 : str[m0 + k] \in DigitSet
       THEN [matched |-> TRUE,
             day |-> SubSeq(str, p, p + nd - 1),
             month |-> SubSeq(str, m0, m0 + 2),
             year |-> SubSeq(str, m0 + 4, m0 + 5)]
       ELSE NoMatch

\* The number of characters of str from position from on that are no digit:
\* [^\d]*.
RECURSIVE NonDigitRun(_, _)
NonDigitRun(str, from) ==
    IF from <= Len(str) /\ str[from] \notin DigitSet
    THEN 1 + NonDigitRun(str, from + 1)
    ELSE 0

\* DATE OF AWARD[^\d]*(\d{1,2})[-\s]+([A-Za-z]+)[-\s]+(\d{4}) tried at
\* position q, re.IGNORECASE.
MatchLabelled(str, q) ==
    LET n == Len(DATE_OF_AWARD) IN
    IF /\ q + n - 1 <= Len(str)
       /\ Upper(SubSeq(str, q, q + n - 1)) = DATE_OF_AWARD
    THEN MatchDayMonthYear(str, q + n + NonDigitRun(str, q + n))
    ELSE NoMatch

\* Lines 157-161: the patterns in the order of the list.
date_patterns_reversed == <<"strict", "generic", "labelled">>

date_patterns == <<"labelled", "generic", "strict">>

MatchAt(pattern, str, p) ==
    CASE pattern = "labelled" -> MatchLabelled(str, p)
      [] pattern = "generic" -> MatchDayMonthYear(str, p)
      [] pattern = "strict" -> MatchDayMonYy(str, p)

\* re.search(pattern, text, re.IGNORECASE), line 164: the match at the
\* leftmost position that has one.
Search(pattern, str) ==
    LET hits == {p \in 1..Len(str) : MatchAt(pattern, str, p).matched} IN
    IF hits = {} THEN NoMatch
    ELSE MatchAt(pattern, str, CHOOSE p \in hits : \A h \in hits : p <= h)

\* Lines 172-173.
ExpandYear(year) ==
    IF Len(year) = 2 THEN <<"2", "0">> \o year ELSE year

MatchFullB(f) == \E m \in 1..12 : Upper(f) = Upper(MonthFull[m])
FullMonthOf(f) == CHOOSE m \in 1..12 : Upper(f) = Upper(MonthFull[m])

\* datetime.strptime(str, "%d %B %Y") when full, else "%d %b %Y".
Strptime_dBY(str, full) ==
    LET f == Split(str, " ") IN
    IF /\ Len(f) = 3
       /\ MatchD(f[1])
       /\ IF full THEN MatchFullB(f[2]) ELSE MatchB(f[2])
       /\ MatchY(f[3])
    THEN LET y == ToInt(f[3])
             m == IF full THEN FullMonthOf(f[2]) ELSE MonthOf(f[2])
             d == ToInt(f[1])
         IN IF ValidDate(y, m, d)
            THEN [ok |-> TRUE, year |-> y, month |-> m, day |-> d]
            ELSE NoDate
    ELSE NoDate

\* Lines 167-177: the date a match parses to.
ParseMatch(match) ==
    LET date_str == Join(<<match.day, match.month, ExpandYear(match.year)>>,
                         " ")
    IN Strptime_dBY(date_str, Len(match.month) > 3)

ExtractInit ==
    /\ PdfIdle
    /\ SearchIdle
    /\ MainIdle
    /\ ParseIdle
    /\ DateIdle
    /\ details_text \in DetailTexts
    /\ pattern_no = 1
    /\ extracted_date = None
    /\ xpc = "search"
    /\ tried = <<>>

\* Lines 163-183: one iteration of the loop over date_patterns.  A match that
\* parses is returned in the form of line 180; a ValueError of strptime is
\* caught at line 181 and the loop continues.
TryPattern ==
    /\ xpc = "search"
    /\ pattern_no <= Len(date_patterns)
    /\ LET pattern == date_patterns[pattern_no]
           match == Search(pattern, details_text)
           parsed_date == IF match.matched THEN ParseMatch(match) ELSE NoDate
       IN IF parsed_date.ok
          THEN /\ extracted_date' =
                      LStripZero(Strftime_dby(parsed_date.year,
                                              parsed_date.month,
                                              parsed_date.day))
               /\ xpc' = "done"
               /\ pattern_no' = pattern_no
               /\ tried' = Append(tried, <<pattern, "parsed">>)
          ELSE /\ pattern_no' = pattern_no + 1
               /\ tried' = Append(tried,
                      <<pattern,
                        IF match.matched THEN "parse_error" ELSE "no_match">>)
               /\ UNCHANGED <<extracted_date, xpc>>
    /\ UNCHANGED details_text
    /\ UNCHANGED nonExtractVars

\* Line 184.
ReturnNone ==
    /\ xpc = "search"
    /\ pattern_no > Len(date_patterns)
    /\ xpc' = "done"
    /\ extracted_date' = None
    /\ UNCHANGED <<details_text, pattern_no, tried>>
    /\ UNCHANGED nonExtractVars

ExtractNext ==
    \/ TryPattern
    \/ ReturnNone

SpecExtract == ExtractInit /\ [][ExtractNext]_vars

(***************************************************************************)
(* Properties of extract_date_from_text                                    *)
(***************************************************************************)
\* The calendar date a match stands for: the month read as a full name when
\* it is longer than three characters, else as an abbreviation, a two-digit
\* year read as 20yy.  ok is FALSE when that is no date.
DateOfMatch(match) ==
    LET names == IF Len(match.month) > 3 THEN MonthFull ELSE MonthAbbr
        y == IF Len(match.year) = 2 THEN 2000 + ToInt(match.year)
             ELSE ToInt(match.year)
        d == ToInt(match.day)
    IN IF \E i \in 1..12 : Upper(names[i]) = Upper(match.month)
       THEN LET m == CHOOSE i \in 1..12 : Upper(names[i]) = Upper(match.month)
            IN [ok |-> ValidDate(y, m, d), year |-> y, month |-> m, day |-> d]
       ELSE NoDate

\* C20: the patterns are tried in the order labelled, generic, strict; a
\* pattern is left behind only when it has no match or its match is no date;
\* the value returned is the canonical form of the date of the first pattern
\* whose match is a date, and None when all three patterns were left behind;
\* the text of the example gives "7-Aug-24" and a text without a date None.
C20_FirstParsingPatternWins ==
    /\ Len(tried) <= 3
    /\ \A k \in 1..Len(tried) :
           LET match == Search(tried[k][1], details_text) IN
           /\ tried[k][1] = <<"labelled", "generic", "strict">>[k]
           /\ tried[k][2] = "no_match" <=> ~match.matched
           /\ tried[k][2] = "parsed" <=>
                  (match.matched /\ DateOfMatch(match).ok)
           /\ tried[k][2] = "parsed" =>
                  /\ k = Len(tried)
                  /\ xpc = "done"
                  /\ extracted_date =
                         CanonicalDate(DateOfMatch(match).year,
                                       DateOfMatch(match).month,
                                       DateOfMatch(match).day)
    /\ xpc = "done" =>
           \/ tried[Len(tried)][2] = "parsed"
           \/ Len(tried) = 3 /\ extracted_date = None
    /\ xpc # "done" => extracted_date = None
    /\ (xpc = "done"
        /\ details_text = Join(<<LabelFragment, LongYearFragment>>, " ")) =>
           extracted_date = <<"7", "-", "A", "u", "g", "-", "2", "4">>
    /\ (xpc = "done" /\ details_text = NoDateFragment) =>
           extracted_date = None

\* In "99 Foo 2024 7-Aug-24" the labelled pattern has no match, the match of
\* the generic one is no date, and the strict one gives 7-Aug-24 with its
\* two-digit year read as 2024.
C20_Witness ==
    /\ xpc = "done"
    /\ details_text = Join(<<NotADateFragment, ShortYearFragment>>, " ")
    /\ tried = << <<"labelled", "no_match">>, <<"generic", "parse_error">>,
                  <<"strict", "parsed">> >>
    /\ extracted_date = <<"7", "-", "A", "u", "g", "-", "2", "4">>

====
